---- MODULE Spec2Model ----
(***************************************************************************)
(* Chain-head indexing subsystem of py-helios-node                         *)
(* (src/evm/db/chain_head.py, class ChainHeadDB).                          *)
(*                                                                         *)
(* The KV store holds the "current root" key, the historical root ring,    *)
(* the chronological block windows and the flushed trie nodes.  One live   *)
(* ChainHeadDB handle owns a root pointer and a write buffer (BatchDB).    *)
(* A trie root is content addressed, so a root hash is modelled by the     *)
(* snapshot it identifies (a function from addresses to head hashes).      *)
(* Timestamps are whole seconds: every use of time.time() in the source is *)
(* int(time.time()) or int(time.time()/W), both functions of the whole     *)
(* second.  rlp.encode / rlp.decode followed by big_endian_to_int is the   *)
(* identity on the naturals stored here, so windows are kept as naturals.  *)
(***************************************************************************)
EXTENDS Integers, Sequences, FiniteSets, TLC

\* evm.constants, imported by chain_head.py; scaled down for model checking
TIME_BETWEEN_HEAD_HASH_SAVE == 3
NUMBER_OF_HEAD_HASH_TO_SAVE == 2

W == TIME_BETWEEN_HEAD_HASH_SAVE
N == NUMBER_OF_HEAD_HASH_TO_SAVE

\* bounds of the model
MaxNow == 15          \* the wall clock runs from 0 to MaxNow seconds
ChronoLead == 1       \* block timestamps run at most this far ahead of the clock
MaxChronoLen == 3     \* at most this many pairs are stored in the chronological index
MaxPruneLen == 2      \* the same cap where promotes run between the insertions

Addresses == {"a1"}
Hashes == {"h1", "h2"}
NoHash == ""          \* BinaryTrie returns the blank node b'' for a missing key

VARIABLES
    now,        \* wall clock, whole seconds
    ring,       \* KV key historical_head_root: <<>> when absent, else [window, root] entries
    curKey,     \* KV key current_head_root: <<>> when absent, else <<root>>
    nodes,      \* roots whose trie nodes are in the KV store
    chrono,     \* chronological windows in the KV store: window -> <<timestamp, hash>> pairs
    root,       \* the live handle's root_hash
    pending,    \* roots whose nodes are only in the handle's BatchDB buffer
    last        \* the last operation, its arguments, branch and outcome

vars == <<now, ring, curKey, nodes, chrono, root, pending, last>>

----------------------------------------------------------------------------
\* Trie and batch wrapper (dependencies of ChainHeadDB)

Snapshots == [Addresses -> Hashes \cup {NoHash}]

BLANK_HASH == [a \in Addresses |-> NoHash]

\* put(root, key, value) -> new_root
TriePut(r, a, h) == [r EXCEPT ![a] = h]

\* get(root, key)
TrieGet(r, a) == r[a]

\* root_exists(root): the root's nodes are in the KV store; the empty trie needs none
RootExists(r) == r = BLANK_HASH \/ r \in nodes

\* has_root: the handle finds the root in its BatchDB, that is in its buffer or in the
\* KV store, and can then read the trie
Readable(r) == RootExists(r) \/ r \in pending

----------------------------------------------------------------------------
\* Window arithmetic

LastFinishedWindow(t) == (t \div W) * W

CurrentWindow(t) == LastFinishedWindow(t) + W

Entry(w, r) == [window |-> w, root |-> r]

----------------------------------------------------------------------------
\* append_current_root_hash_to_historical

\* the in-progress test written with >= : a ring whose tail is the window that has just
\* finished is taken as still in progress
PromoteBranchGe(hr, t) ==
    IF hr = <<>> THEN "empty"
    ELSE IF hr[Len(hr)].window >= LastFinishedWindow(t) THEN "inprogress"
    ELSE IF hr[Len(hr)].window < t - N * W THEN "reset"
    ELSE "rollover"

PromoteBranch(hr, t) ==
    IF hr = <<>> THEN "empty"
    ELSE IF hr[Len(hr)].window > LastFinishedWindow(t) THEN "inprogress"
    ELSE IF hr[Len(hr)].window < t - N * W THEN "reset"
    ELSE "rollover"

\* the trim written as del(historical_roots[NUMBER_OF_HEAD_HASH_TO_SAVE:]): it drops
\* the newest entries
TrimRingFromBack(hr) ==
    IF Len(hr) > N THEN SubSeq(hr, 1, N) ELSE hr

\* del(historical_roots[:-1*NUMBER_OF_HEAD_HASH_TO_SAVE])
TrimRing(hr) ==
    IF Len(hr) > N THEN SubSeq(hr, Len(hr) - N + 1, Len(hr)) ELSE hr

\* the first window of the synthesized ring
ResetStartTime(t) == t - N * W

ResetRing(hr, t, r) ==
    [i \in 1..N |-> Entry(ResetStartTime(t) + W * (i - 1), hr[Len(hr)].root)]
        \o <<Entry(CurrentWindow(t), r)>>

\* num_increments_needed
NumIncrementsNeeded(hr, t) == (LastFinishedWindow(t) - hr[Len(hr)].window) \div W

RolloverExtend(hr, t, r) ==
    LET latest == hr[Len(hr)].window
    IN  hr \o [i \in 1..NumIncrementsNeeded(hr, t) |-> Entry(latest + W * i, hr[Len(hr)].root)]
           \o <<Entry(CurrentWindow(t), r)>>

RolloverRing(hr, t, r) == TrimRing(RolloverExtend(hr, t, r))

\* the in-progress branch writing the current root into every entry
InProgressRingAll(hr, r) == [i \in DOMAIN hr |-> Entry(hr[i].window, r)]

\* the in-progress branch appending an entry instead of overwriting the tail
InProgressRingAppend(hr, r) == hr \o <<Entry(hr[Len(hr)].window, r)>>

InProgressRing(hr, r) == [hr EXCEPT ![Len(hr)].root = r]

\* the first promote of a store filing the root under last_finished_window
PromoteRingEmptyLastFinished(hr, t, r) ==
    CASE PromoteBranch(hr, t) = "empty" -> <<Entry(LastFinishedWindow(t), r)>>
      [] PromoteBranch(hr, t) = "inprogress" -> InProgressRing(hr, r)
      [] PromoteBranch(hr, t) = "reset" -> ResetRing(hr, t, r)
      [] PromoteBranch(hr, t) = "rollover" -> RolloverRing(hr, t, r)

PromoteRing(hr, t, r) ==
    CASE PromoteBranch(hr, t) = "empty" -> <<Entry(CurrentWindow(t), r)>>
      [] PromoteBranch(hr, t) = "inprogress" -> InProgressRing(hr, r)
      [] PromoteBranch(hr, t) = "reset" -> ResetRing(hr, t, r)
      [] PromoteBranch(hr, t) = "rollover" -> RolloverRing(hr, t, r)

\* range(initial_first_time, final_first_time, W)
DeleteRange(first, final) ==
    {w \in first..(final - 1) : (w - first) % W = 0}

\* the windows the deletion loop visits
PromoteDeletes(hr, t, r) ==
    IF PromoteBranch(hr, t) \in {"reset", "rollover"}
    THEN DeleteRange(hr[1].window, PromoteRing(hr, t, r)[1].window)
    ELSE {}

\* delete_chronological_block_window raises on a timestamp that is no multiple of W;
\* the first visited window decides, the others are congruent to it
PromoteRaises(hr, t, r) == \E w \in PromoteDeletes(hr, t, r) : w % W # 0

PromoteErr(hr, t, r) ==
    IF PromoteRaises(hr, t, r) THEN "InvalidHeadRootTimestamp" ELSE "none"

\* the entries the call synthesizes for windows without a commit
PromoteSynthesized(hr, t) ==
    CASE PromoteBranch(hr, t) = "reset" -> N
      [] PromoteBranch(hr, t) = "rollover" -> NumIncrementsNeeded(hr, t)
      [] OTHER -> 0

\* the chronological windows after the deletion loop
PromoteChrono(c, hr, t, r) ==
    IF PromoteRaises(hr, t, r) THEN c
    ELSE [w \in DOMAIN c \ PromoteDeletes(hr, t, r) |-> c[w]]

----------------------------------------------------------------------------
\* Chronological windows

\* the backward scan stopping only at an entry strictly below the timestamp
InsertIndexStrict(data, ts) ==
    LET lt == {i \in 1..Len(data) : data[i][1] < ts}
    IN  IF lt = {} THEN 0 ELSE CHOOSE i \in lt : \A j \in lt : j <= i

\* the insertion without the backward scan: the pair always goes last
InsertIndexAppend(data, ts) == Len(data)

\* the index after which the new pair goes: the last i with data[i].timestamp <= ts, else 0
InsertIndex(data, ts) ==
    LET le == {i \in 1..Len(data) : data[i][1] <= ts}
    IN  IF le = {} THEN 0 ELSE CHOOSE i \in le : \A j \in le : j <= i

\* an insertion that leaves the list alone when it already holds the pair
InsertPairDedup(data, ts, h) ==
    IF \E i \in DOMAIN data : data[i] = <<ts, h>> THEN data
    ELSE LET k == InsertIndex(data, ts)
         IN  SubSeq(data, 1, k) \o <<<<ts, h>>>> \o SubSeq(data, k + 1, Len(data))

InsertPair(data, ts, h) ==
    LET k == InsertIndex(data, ts)
    IN  SubSeq(data, 1, k) \o <<<<ts, h>>>> \o SubSeq(data, k + 1, Len(data))

\* the retention test with >= in place of >
ChronoAcceptsGe(ts, t) == ts >= t - N * W

ChronoAccepts(ts, t) == ts > t - N * W

WindowForBlock(ts) == (ts \div W) * W

----------------------------------------------------------------------------
\* State

\* the record of the last operation: its name, the branch it took, the exception it
\* raised ("none" when it returned) and a count n that belongs to the branch (the
\* synthesized ring entries of a promote, the insertion index of a chronological insert)
Op(op, branch, err, n) == [op |-> op, branch |-> branch, err |-> err, n |-> n]

Init ==
    /\ now = 0
    /\ ring = <<>>
    /\ curKey = <<>>
    /\ nodes = {}
    /\ chrono = <<>>
    /\ root = BLANK_HASH
    /\ pending = {}
    /\ last = Op("init", "", "none", 0)

\* the wall clock moves forward
Tick ==
    /\ \E t \in (now + 1)..MaxNow : now' = t
    /\ last' = Op("tick", "", "none", 0)
    /\ UNCHANGED <<ring, curKey, nodes, chrono, root, pending>>

\* a write that stays in the cache and never reaches the trie
SetChainHeadHashCacheOnly(a, h) ==
    /\ IF Readable(root)
       THEN /\ UNCHANGED <<root, pending>>
            /\ last' = Op("set_chain_head_hash", "", "none", 0)
       ELSE /\ UNCHANGED <<root, pending>>
            /\ last' = Op("set_chain_head_hash", "", "MissingTrieNode", 0)
    /\ UNCHANGED <<now, ring, curKey, nodes, chrono>>

\* a write whose new nodes go straight to the KV store
SetChainHeadHashWriteThrough(a, h) ==
    /\ IF Readable(root)
       THEN /\ root' = TriePut(root, a, h)
            /\ nodes' = nodes \cup {TriePut(root, a, h)}
            /\ last' = Op("set_chain_head_hash", "", "none", 0)
       ELSE /\ UNCHANGED <<root, nodes>>
            /\ last' = Op("set_chain_head_hash", "", "MissingTrieNode", 0)
    /\ UNCHANGED <<now, ring, curKey, pending, chrono>>

\* set_chain_head_hash: the write goes through the cache into the trie, whose new
\* nodes land in the BatchDB buffer; the root pointer moves at once
SetChainHeadHash(a, h) ==
    /\ IF Readable(root)
       THEN /\ root' = TriePut(root, a, h)
            /\ pending' = pending \cup {TriePut(root, a, h)}
            /\ last' = Op("set_chain_head_hash", "", "none", 0)
       ELSE /\ UNCHANGED <<root, pending>>
            /\ last' = Op("set_chain_head_hash", "", "MissingTrieNode", 0)
    /\ UNCHANGED <<now, ring, curKey, nodes, chrono>>

\* the KV effect of append_current_root_hash_to_historical and the record of the call
Promote(op) ==
    /\ ring' = PromoteRing(ring, now, root)
    /\ chrono' = PromoteChrono(chrono, ring, now, root)
    /\ last' = Op(op, PromoteBranch(ring, now), PromoteErr(ring, now, root),
                  PromoteSynthesized(ring, now))

AppendCurrentRootHashToHistorical ==
    /\ Promote("append_current_root_hash_to_historical")
    /\ UNCHANGED <<now, curKey, nodes, root, pending>>

SaveCurrentRootHash ==
    /\ curKey' = <<root>>
    /\ Promote("save_current_root_hash")
    /\ UNCHANGED <<now, nodes, root, pending>>

\* _batchtrie.commit(apply_deletes=False): every buffered node reaches the KV store
BatchCommit == nodes \cup pending

\* a commit that applies deletes: the KV store keeps the flushed buffer only
PersistApplyDeletes(save) ==
    /\ nodes' = pending
    /\ pending' = {}
    /\ IF save
       THEN /\ curKey' = <<root>>
            /\ Promote("persist")
       ELSE /\ UNCHANGED <<curKey, ring, chrono>>
            /\ last' = Op("persist", "", "none", 0)
    /\ UNCHANGED <<now, root>>

Persist(save) ==
    /\ nodes' = BatchCommit
    /\ pending' = {}
    /\ IF save
       THEN /\ curKey' = <<root>>
            /\ Promote("persist")
       ELSE /\ UNCHANGED <<curKey, ring, chrono>>
            /\ last' = Op("persist", "", "none", 0)
    /\ UNCHANGED <<now, root>>

\* persist is between its first KV write and its last
MidPersist == last.op = "persist" /\ last.branch \in {"commit", "key"}

\* the first statement of persist: the buffer is flushed; with save_current_root_hash
\* set the call goes on to save_current_root_hash, otherwise it returns
PersistCommit(save) ==
    /\ ~MidPersist
    /\ nodes' = BatchCommit
    /\ pending' = {}
    /\ last' = Op("persist", IF save THEN "commit" ELSE "", "none", 0)
    /\ UNCHANGED <<now, ring, curKey, chrono, root>>

\* a write of the current-root key that does not wait for the flush
PersistSetKeyEarly ==
    /\ last.branch # "key"
    /\ curKey' = <<root>>
    /\ last' = Op("persist", "key", "none", 0)
    /\ UNCHANGED <<now, ring, nodes, chrono, root, pending>>

\* the first statement of save_current_root_hash within persist: db.set of the key
PersistSetKey ==
    /\ last.op = "persist" /\ last.branch = "commit"
    /\ curKey' = <<root>>
    /\ last' = Op("persist", "key", "none", 0)
    /\ UNCHANGED <<now, ring, nodes, chrono, root, pending>>

\* the last statement of save_current_root_hash within persist: the promote
PersistAppend ==
    /\ last.op = "persist" /\ last.branch = "key"
    /\ Promote("persist")
    /\ UNCHANGED <<now, curKey, nodes, root, pending>>

\* a load that ignores the saved key and opens the blank root
LoadFromSavedRootHashBlank ==
    /\ root' = BLANK_HASH
    /\ pending' = {}
    /\ last' = Op("load_from_saved_root_hash", "", "none", 0)
    /\ UNCHANGED <<now, ring, curKey, nodes, chrono>>

\* load_from_saved_root_hash: a new handle on the saved root; the previous handle and
\* its write buffer are gone (a restart, or a crash between two operations)
LoadFromSavedRootHash ==
    /\ root' = IF curKey = <<>> THEN BLANK_HASH ELSE curKey[1]
    /\ pending' = {}
    /\ last' = Op("load_from_saved_root_hash", "", "none", 0)
    /\ UNCHANGED <<now, ring, curKey, nodes, chrono>>

\* the timestamp checks without the alignment test
TimestampValidNoAlign(ts, t) == ts <= t

TimestampValid(ts, t) == ts <= t /\ ts % W = 0

\* add_block_hash_to_timestamp.  After the embedded promote, line 201 computes
\* starting_index with the true division "/", which yields a float for every pair of
\* ints in Python 3, and range(starting_index, num_increments) at line 203 raises
\* TypeError for a float argument: the rewrite loop and the final
\* save_historical_root_hashes are never reached.
AddBlockHashToTimestampErr(hr, t, r, ts) ==
    IF ~TimestampValid(ts, t) THEN "InvalidHeadRootTimestamp"
    ELSE IF PromoteRaises(hr, t, r) THEN "InvalidHeadRootTimestamp"
    ELSE "TypeError"

\* a call whose rewrite runs over every ring entry, the in-progress one included
AddBlockHashToTimestampRewritesTail(a, h, ts) ==
    /\ IF TimestampValid(ts, now)
       THEN /\ ring' = [i \in DOMAIN PromoteRing(ring, now, root) |->
                           Entry(PromoteRing(ring, now, root)[i].window,
                                 TriePut(PromoteRing(ring, now, root)[i].root, a, h))]
            /\ chrono' = PromoteChrono(chrono, ring, now, root)
            /\ last' = Op("add_block_hash_to_timestamp", PromoteBranch(ring, now),
                          AddBlockHashToTimestampErr(ring, now, root, ts),
                          PromoteSynthesized(ring, now))
       ELSE /\ UNCHANGED <<ring, chrono>>
            /\ last' = Op("add_block_hash_to_timestamp", "",
                          AddBlockHashToTimestampErr(ring, now, root, ts), 0)
    /\ UNCHANGED <<now, curKey, nodes, root, pending>>

AddBlockHashToTimestamp(a, h, ts) ==
    /\ IF TimestampValid(ts, now)
       THEN /\ ring' = PromoteRing(ring, now, root)
            /\ chrono' = PromoteChrono(chrono, ring, now, root)
            /\ last' = Op("add_block_hash_to_timestamp", PromoteBranch(ring, now),
                          AddBlockHashToTimestampErr(ring, now, root, ts),
                          PromoteSynthesized(ring, now))
       ELSE /\ UNCHANGED <<ring, chrono>>
            /\ last' = Op("add_block_hash_to_timestamp", "",
                          AddBlockHashToTimestampErr(ring, now, root, ts), 0)
    /\ UNCHANGED <<now, curKey, nodes, root, pending>>

\* a read that looks in the KV store only and not in the handle's write buffer
GetChainHeadHashFromStore(a) ==
    IF RootExists(root) THEN TrieGet(root, a) ELSE "MissingTrieNode"

\* get_chain_head_hash on the live handle: the read goes through the cache into the
\* handle's trie, which sees the write buffer and the KV store
GetChainHeadHash(a) ==
    IF Readable(root) THEN TrieGet(root, a) ELSE "MissingTrieNode"

\* ChainHeadDB(self.db, r)._trie_cache.get(a): a new handle with an empty write buffer
\* reads the snapshot at r from the KV store alone
FreshGet(r, a) ==
    IF RootExists(r) THEN TrieGet(r, a) ELSE "MissingTrieNode"

\* the path of get_chain_head_hash_at_timestamp without the alignment check
GetChainHeadHashAtTimestampBranchNoAlign(hr, ts, t) ==
    IF ts > t THEN "invalid"
    ELSE IF hr = <<>> THEN "no_ring"
    ELSE IF ts < hr[1].window THEN "before_first"
    ELSE IF \E i \in DOMAIN hr : hr[i].window = ts THEN "exact"
    ELSE "latest"

\* the path of get_chain_head_hash_at_timestamp without the test against the first
\* ring entry
GetChainHeadHashAtTimestampBranchNoFirst(hr, ts, t) ==
    IF ts > t \/ ts % W # 0 THEN "invalid"
    ELSE IF hr = <<>> THEN "no_ring"
    ELSE IF \E i \in DOMAIN hr : hr[i].window = ts THEN "exact"
    ELSE "latest"

\* the path get_chain_head_hash_at_timestamp takes: the two timestamp checks, the
\* missing ring, the timestamp below the first ring entry, then the dict lookup that
\* finds the window or falls back to the last entry on KeyError
GetChainHeadHashAtTimestampBranch(hr, ts, t) ==
    IF ts > t \/ ts % W # 0 THEN "invalid"
    ELSE IF hr = <<>> THEN "no_ring"
    ELSE IF ts < hr[1].window THEN "before_first"
    ELSE IF \E i \in DOMAIN hr : hr[i].window = ts THEN "exact"
    ELSE "latest"

\* historical_roots_dict[timestamp], else historical_roots[-1][1]; dict() keeps the
\* last pair of a repeated key
HistoricalRoot(hr, ts) ==
    LET m == {i \in DOMAIN hr : hr[i].window = ts}
    IN  IF m = {} THEN hr[Len(hr)].root
        ELSE hr[CHOOSE i \in m : \A j \in m : j <= i].root

\* what the call returns or raises: "None" is Python's None, NoHash the blank value
\* the trie returns for a key it does not hold
GetChainHeadHashAtTimestampResult(a, ts) ==
    CASE GetChainHeadHashAtTimestampBranch(ring, ts, now) = "invalid" ->
             "InvalidHeadRootTimestamp"
      [] GetChainHeadHashAtTimestampBranch(ring, ts, now) \in {"no_ring", "before_first"} ->
             "None"
      [] OTHER -> FreshGet(HistoricalRoot(ring, ts), a)

GetChainHeadHashAtTimestampErr(a, ts) ==
    IF GetChainHeadHashAtTimestampResult(a, ts) \in
           {"InvalidHeadRootTimestamp", "MissingTrieNode"}
    THEN GetChainHeadHashAtTimestampResult(a, ts)
    ELSE "none"

\* get_chain_head_hash_at_timestamp: a read that writes nothing
GetChainHeadHashAtTimestamp(a, ts) ==
    /\ last' = Op("get_chain_head_hash_at_timestamp",
                  GetChainHeadHashAtTimestampBranch(ring, ts, now),
                  GetChainHeadHashAtTimestampErr(a, ts), 0)
    /\ UNCHANGED <<now, ring, curKey, nodes, chrono, root, pending>>

\* a read that returns the window of the first ring entry
GetLatestTimestampFirst(hr) ==
    IF hr = <<>> THEN 0 ELSE hr[1].window

\* get_latest_timestamp: 0 when get_historical_root_hashes returns None, else
\* big_endian_to_int(historical[-1][0])
GetLatestTimestampResult(hr) ==
    IF hr = <<>> THEN 0 ELSE hr[Len(hr)].window

\* the call records the timestamp it returns and writes nothing
GetLatestTimestamp ==
    /\ last' = Op("get_latest_timestamp", IF ring = <<>> THEN "no_ring" ELSE "latest",
                  "none", GetLatestTimestampResult(ring))
    /\ UNCHANGED <<now, ring, curKey, nodes, chrono, root, pending>>

\* the pairs stored in all chronological windows
ChronoSize ==
    LET RECURSIVE Sum(_)
        Sum(S) == IF S = {} THEN 0
                  ELSE LET w == CHOOSE x \in S : TRUE IN Len(chrono[w]) + Sum(S \ {w})
    IN  Sum(DOMAIN chrono)

\* load_chronological_block_window, the insertion, save_chronological_block_window
ChronoInsert(c, h, ts) ==
    LET w == WindowForBlock(ts)
        data == IF w \in DOMAIN c THEN InsertPair(c[w], ts, h) ELSE <<<<ts, h>>>>
    IN  [x \in DOMAIN c \cup {w} |-> IF x = w THEN data ELSE c[x]]

\* the branch of the insertion: the window is new, or the pair goes after the entry
\* the backward scan stops at, or no entry is at or below it and it goes first
ChronoBranch(c, ts, t) ==
    IF ~ChronoAccepts(ts, t) THEN "ignored"
    ELSE IF WindowForBlock(ts) \notin DOMAIN c THEN "new"
    ELSE IF InsertIndex(c[WindowForBlock(ts)], ts) = 0 THEN "prepended"
    ELSE "inserted"

ChronoIndex(c, ts, t) ==
    IF ChronoAccepts(ts, t) /\ WindowForBlock(ts) \in DOMAIN c
    THEN InsertIndex(c[WindowForBlock(ts)], ts) ELSE 0

AddBlockHashToChronologicalWindow(h, ts) ==
    /\ ChronoSize < MaxChronoLen
    /\ chrono' = IF ChronoAccepts(ts, now) THEN ChronoInsert(chrono, h, ts) ELSE chrono
    /\ last' = Op("add_block_hash_to_chronological_window", ChronoBranch(chrono, ts, now),
                  "none", ChronoIndex(chrono, ts, now))
    /\ UNCHANGED <<now, ring, curKey, nodes, root, pending>>

\* an alignment test that accepts every timestamp
WindowAlignedAlways(w) == TRUE

\* the test the three chronological window accessors make before they touch the store
WindowAligned(w) == w % W = 0

\* save_chronological_block_window: the list replaces what is stored under the window
SaveChronologicalBlockWindow(data, w) ==
    /\ chrono' = IF WindowAligned(w)
                 THEN [x \in DOMAIN chrono \cup {w} |-> IF x = w THEN data ELSE chrono[x]]
                 ELSE chrono
    /\ last' = IF WindowAligned(w)
               THEN Op("save_chronological_block_window", "saved", "none", Len(data))
               ELSE Op("save_chronological_block_window", "invalid",
                       "InvalidHeadRootTimestamp", 0)
    /\ UNCHANGED <<now, ring, curKey, nodes, root, pending>>

\* load_chronological_block_window: the stored list (n is its length), or None when
\* the key is missing
LoadChronologicalBlockWindow(w) ==
    /\ last' = IF ~WindowAligned(w)
               THEN Op("load_chronological_block_window", "invalid",
                       "InvalidHeadRootTimestamp", 0)
               ELSE IF w \in DOMAIN chrono
               THEN Op("load_chronological_block_window", "found", "none", Len(chrono[w]))
               ELSE Op("load_chronological_block_window", "None", "none", 0)
    /\ UNCHANGED <<now, ring, curKey, nodes, chrono, root, pending>>

\* delete_chronological_block_window: the key is deleted, a missing key is passed over
DeleteChronologicalBlockWindow(w) ==
    /\ chrono' = IF WindowAligned(w)
                 THEN [x \in DOMAIN chrono \ {w} |-> chrono[x]]
                 ELSE chrono
    /\ last' = IF ~WindowAligned(w)
               THEN Op("delete_chronological_block_window", "invalid",
                       "InvalidHeadRootTimestamp", 0)
               ELSE IF w \in DOMAIN chrono
               THEN Op("delete_chronological_block_window", "deleted", "none", 0)
               ELSE Op("delete_chronological_block_window", "missing", "none", 0)
    /\ UNCHANGED <<now, ring, curKey, nodes, root, pending>>

\* the handle and the ring under clock steps
Next ==
    \/ Tick
    \/ \E a \in Addresses, h \in Hashes : SetChainHeadHash(a, h)
    \/ AppendCurrentRootHashToHistorical
    \/ SaveCurrentRootHash
    \/ \E save \in BOOLEAN : Persist(save)
    \/ LoadFromSavedRootHash
    \/ \E a \in Addresses, h \in Hashes, ts \in 0..(now + 1) : AddBlockHashToTimestamp(a, h, ts)

Spec == Init /\ [][Next]_vars

\* the same without direct calls of append_current_root_hash_to_historical: the ring
\* is promoted only through save_current_root_hash, persist and add_block_hash_to_timestamp
NextApi ==
    \/ Tick
    \/ \E a \in Addresses, h \in Hashes : SetChainHeadHash(a, h)
    \/ SaveCurrentRootHash
    \/ \E save \in BOOLEAN : Persist(save)
    \/ LoadFromSavedRootHash
    \/ \E a \in Addresses, h \in Hashes, ts \in 0..(now + 1) : AddBlockHashToTimestamp(a, h, ts)

SpecApi == Init /\ [][NextApi]_vars

\* the block timestamps offered to the chronological index: from just below the
\* retention limit (ignored) to ChronoLead seconds ahead of the clock
ChronoInputs ==
    {ts \in 0..(MaxNow + ChronoLead) : now - N * W - 1 <= ts /\ ts <= now + ChronoLead}

\* the chronological index under insertions in any timestamp order and clock steps
NextChrono ==
    \/ Tick
    \/ \E h \in Hashes, ts \in ChronoInputs : AddBlockHashToChronologicalWindow(h, ts)

SpecChrono == Init /\ [][NextChrono]_vars

\* the chronological index under a few insertions and clock steps
NextChronoFew ==
    \/ Tick
    \/ \E h \in Hashes, ts \in ChronoInputs :
           ChronoSize < MaxPruneLen /\ AddBlockHashToChronologicalWindow(h, ts)

SpecChronoFew == Init /\ [][NextChronoFew]_vars

\* the lists offered to save_chronological_block_window for a timestamp
WindowData(w) ==
    {<<<<w, h>>>> : h \in Hashes} \cup {<<<<w, "h1">>, <<w + 1, "h2">>>>}

\* the chronological window accessors called directly, with any timestamp up to just
\* past the clock
NextWindow ==
    \/ Tick
    \/ \E w \in 0..(now + 1) : \E data \in WindowData(w) :
           ChronoSize < MaxPruneLen /\ SaveChronologicalBlockWindow(data, w)
    \/ \E w \in 0..(now + 1) : LoadChronologicalBlockWindow(w)
    \/ \E w \in 0..(now + 1) : DeleteChronologicalBlockWindow(w)

SpecWindow == Init /\ [][NextWindow]_vars

\* persist statement by statement: the handle makes no other call until persist has
\* returned, and the process may stop between any two statements and be restarted
\* from the store
NextSteps ==
    \/ ~MidPersist /\ Tick
    \/ \E a \in Addresses, h \in Hashes : ~MidPersist /\ SetChainHeadHash(a, h)
    \/ \E h \in Hashes, ts \in ChronoInputs :
           /\ ~MidPersist
           /\ chrono = <<>>
           /\ AddBlockHashToChronologicalWindow(h, ts)
    \/ \E save \in BOOLEAN : PersistCommit(save)
    \/ PersistSetKey
    \/ PersistAppend
    \/ LoadFromSavedRootHash

SpecSteps == Init /\ [][NextSteps]_vars

\* the block timestamps of blocks that arrive as they are made: at the clock or ahead
\* of it
ChronoRecent == {ts \in ChronoInputs : ts >= now}

\* the chronological index under insertions of recent blocks and clock steps
NextChronoRecent ==
    \/ Tick
    \/ \E h \in Hashes, ts \in ChronoRecent : AddBlockHashToChronologicalWindow(h, ts)

SpecChronoRecent == Init /\ [][NextChronoRecent]_vars

\* the chronological index under insertions, promotes and clock steps
NextPrune ==
    \/ Tick
    \/ \E h \in Hashes, ts \in ChronoInputs :
           ChronoSize < MaxPruneLen /\ AddBlockHashToChronologicalWindow(h, ts)
    \/ AppendCurrentRootHashToHistorical

SpecPrune == Init /\ [][NextPrune]_vars

\* the historical read under writes, commits, promotes of buffered roots and clock steps
NextRead ==
    \/ Tick
    \/ \E a \in Addresses, h \in Hashes : SetChainHeadHash(a, h)
    \/ SaveCurrentRootHash
    \/ \E save \in BOOLEAN : Persist(save)
    \/ \E a \in Addresses, ts \in 0..(now + 1) : GetChainHeadHashAtTimestamp(a, ts)

SpecRead == Init /\ [][NextRead]_vars

\* the late-block call on a handle that writes and commits, under clock steps
NextLate ==
    \/ Tick
    \/ \E a \in Addresses, h \in Hashes : SetChainHeadHash(a, h)
    \/ \E save \in BOOLEAN : Persist(save)
    \/ \E a \in Addresses, h \in Hashes, ts \in 0..(now + 1) : AddBlockHashToTimestamp(a, h, ts)

SpecLate == Init /\ [][NextLate]_vars

\* the wall clock set back (an NTP step, a restored VM): time.time() returns less than
\* it did at an earlier call
ClockBack ==
    /\ \E t \in 0..(now - 1) : now' = t
    /\ last' = Op("clock_back", "", "none", 0)
    /\ UNCHANGED <<ring, curKey, nodes, chrono, root, pending>>

\* the promote under a clock that moves in both directions
NextClock ==
    \/ Tick
    \/ ClockBack
    \/ \E a \in Addresses, h \in Hashes : SetChainHeadHash(a, h)
    \/ AppendCurrentRootHashToHistorical

SpecClock == Init /\ [][NextClock]_vars

\* the ring under promotes in both clock directions, with reads of its latest window
NextLatest ==
    \/ Tick
    \/ ClockBack
    \/ \E a \in Addresses, h \in Hashes : SetChainHeadHash(a, h)
    \/ AppendCurrentRootHashToHistorical
    \/ GetLatestTimestamp

SpecLatest == Init /\ [][NextLatest]_vars

----------------------------------------------------------------------------
\* Properties

PromoteOps ==
    {"append_current_root_hash_to_historical", "save_current_root_hash", "persist",
     "add_block_hash_to_timestamp"}

\* the last operation ran append_current_root_hash_to_historical
Promoted == last.op \in PromoteOps /\ last.branch # ""

\* C1: in every reachable state the persisted ring has strictly increasing windows,
\* consecutive windows differ by exactly W, and the ring holds at most N + 1 entries.
\* The reset branch breaks the spacing.
C1_RingWellFormed ==
    /\ Len(ring) <= N + 1
    /\ \A i \in 1..(Len(ring) - 1) :
           /\ ring[i].window < ring[i + 1].window
           /\ ring[i + 1].window - ring[i].window = W

C3_RingRootsFlushed ==
    \A i \in DOMAIN ring :
        ring[i].window < (now \div W) * W + W => RootExists(ring[i].root)

\* C4: a call add_block_hash_to_timestamp(a, h, ts) with an aligned ts <= now leaves
\* every ring entry (w, r) with ts <= w <= last_finished with a snapshot r in which the
\* head of a is h.  The call raises TypeError before it rewrites any entry.
C4_LateBlockRewritesSnapshots ==
    [][\A a \in Addresses, h \in Hashes, ts \in 0..MaxNow :
          (TimestampValid(ts, now) /\ AddBlockHashToTimestamp(a, h, ts)) =>
              \A i \in DOMAIN ring' :
                  (ts <= ring'[i].window /\ ring'[i].window <= (now \div W) * W) =>
                      TrieGet(ring'[i].root, a) = h]_vars

\* C5: after any promote the ring holds an entry for every W-aligned window w with
\* now - N*W <= w <= floor(now/W)*W + W.  A first promote stores one entry, the rollover
\* keeps N entries and the reset branch leaves out the last finished window.
C5_RingDenselyCovers ==
    Promoted =>
        \A w \in 0..(MaxNow + W) :
            (w % W = 0 /\ now - N * W <= w /\ w <= (now \div W) * W + W) =>
                \E i \in DOMAIN ring : ring[i].window = w

\* C6: once a promote has completed, no chronological window older than the first
\* ring entry's window remains in the KV store.  The deletion loop starts at the old
\* first ring window, so a window inserted below it is never deleted.
C6_NoWindowOlderThanRing ==
    (last.op = "append_current_root_hash_to_historical" /\ last.err = "none") =>
        \A w \in DOMAIN chrono : w >= ring[1].window

\* C7: in every stored chronological window w every pair (t, h) has w <= t < w + W and
\* the list is sorted ascending by t, whatever the order of the insertions.
C7_ChronoWindowSorted ==
    \A w \in DOMAIN chrono :
        /\ \A i \in 1..Len(chrono[w]) : w <= chrono[w][i][1] /\ chrono[w][i][1] < w + W
        /\ \A i \in 1..(Len(chrono[w]) - 1) : chrono[w][i][1] <= chrono[w][i + 1][1]

\* three pairs of one window, the last one inserted between the two stored before
C7_Witness ==
    /\ last.op = "add_block_hash_to_chronological_window"
    /\ last.branch = "inserted"
    /\ last.n = 1
    /\ \E w \in DOMAIN chrono :
           /\ Len(chrono[w]) = 3
           /\ chrono[w][1][1] < chrono[w][2][1]
           /\ chrono[w][2][1] < chrono[w][3][1]

\* C8: a promote that finds the ring tail older than now - N*W leaves N + 1 entries
\* with consecutive W-spaced windows ending at floor(now/W)*W + W, the first N with the
\* previous tail's root and the last with the handle's root.  The synthesized windows
\* start at now - N*W and end at now - W.
C8_ResetCoversRetention ==
    [][last'.branch = "reset" =>
          /\ Len(ring') = N + 1
          /\ \A i \in 1..(N + 1) :
                 ring'[i].window = (now \div W) * W + W - (N + 1 - i) * W
          /\ \A i \in 1..N : ring'[i].root = ring[Len(ring)].root
          /\ ring'[N + 1].root = root]_vars

\* C9: a promote in the rollover case appends one entry for every window from
\* latest + W up to last_finished inclusive, each with the root the tail had before the
\* call, then (current, handle root), and trims entries only from the front.
C9_RolloverAppendsAndTrimsFront ==
    [][last'.branch = "rollover" =>
          LET latest == ring[Len(ring)].window
              tail == ring[Len(ring)].root
              lf == (now \div W) * W
              k == (lf - latest) \div W
              ext == ring \o [i \in 1..k |-> [window |-> latest + i * W, root |-> tail]]
                          \o <<[window |-> lf + W, root |-> root]>>
          IN  /\ latest + k * W = lf
              /\ \E d \in 0..(Len(ext) - 1) : ring' = SubSeq(ext, d + 1, Len(ext))]_vars

\* a rollover that synthesized entries, trimmed the ring and stored a new root
C9_Witness ==
    /\ last.branch = "rollover"
    /\ last.n >= 1
    /\ Len(ring) = N
    /\ ring[N].root = root
    /\ ring[N - 1].root # root

\* C10: a promote that finds the ring tail in the in-progress window keeps the length
\* and the windows of the ring and the root of every entry but the last, whose root
\* becomes the handle's root.
C10_InProgressOverwritesTail ==
    [][last'.branch = "inprogress" =>
          /\ Len(ring') = Len(ring)
          /\ \A i \in 1..Len(ring) : ring'[i].window = ring[i].window
          /\ \A i \in 1..(Len(ring) - 1) : ring'[i].root = ring[i].root
          /\ ring'[Len(ring)].root = root]_vars

C10_Witness ==
    /\ last.branch = "inprogress"
    /\ Len(ring) >= 2
    /\ ring[Len(ring)].root = root
    /\ ring[Len(ring) - 1].root # root

\* C11: on a store without a persisted ring, set_chain_head_hash(A, H1) followed by
\* persist(save_current_root_hash=True) leaves a ring of exactly one entry, filed under
\* floor(now/W)*W + W with the root after the write, and get_chain_head_hash(A)
\* returns H1: the write is read back at once, and the persist keeps the handle's root
\* and every read of the handle
C11_FirstPersistCreatesRing ==
    /\ [][\A a \in Addresses, h \in Hashes :
             (SetChainHeadHash(a, h) /\ last'.err = "none") =>
                 GetChainHeadHash(a)' = h]_vars
    /\ [][(ring = <<>> /\ Persist(TRUE)) =>
             /\ ring' = <<[window |-> (now \div W) * W + W, root |-> root]>>
             /\ root' = root
             /\ \A a \in Addresses : GetChainHeadHash(a)' = GetChainHeadHash(a)]_vars

C11_Witness ==
    /\ last.op = "persist"
    /\ last.branch = "empty"
    /\ Len(ring) = 1
    /\ ring[1].root = root
    /\ now % W # 0
    /\ \E a \in Addresses : GetChainHeadHash(a) \in Hashes

\* C12: add_block_hash_to_timestamp(A, H2, ts) on an up-to-date ring whose first window
\* is ts (the ring [(9_000, R0), (10_000, R0), (11_000, R1)] at clock 10_000 with
\* ts = 9_000, scaled to W and N) yields a ring with the same windows in which the
\* snapshot at every root, the in-progress one included, returns H2 for A
C12_LateBlockRewritesEveryEntry ==
    [][last'.op = "add_block_hash_to_timestamp" =>
          \A a \in Addresses, h \in Hashes, ts \in 0..MaxNow :
              ( /\ AddBlockHashToTimestamp(a, h, ts)
                /\ ts <= now /\ ts % W = 0
                /\ ring # <<>>
                /\ ts = ring[1].window
                /\ ring[Len(ring)].window = (now \div W) * W + W ) =>
                  /\ Len(ring') = Len(ring)
                  /\ \A i \in DOMAIN ring : ring'[i].window = ring[i].window
                  /\ \A i \in DOMAIN ring' : TrieGet(ring'[i].root, a) = h]_vars

\* C13: add_block_hash_to_timestamp never replaces the root of the in-progress (last)
\* ring entry with a rewritten snapshot: after a call whose embedded promote ran
\* (the record of the call names the promote's branch) the last entry's root is the
\* calling handle's own root, as the promote wrote it, a call rejected before the
\* promote leaves the ring alone, and the handle's root_hash is unchanged either way
C13_LateBlockKeepsInProgressRoot ==
    [][last'.op = "add_block_hash_to_timestamp" =>
          /\ root' = root
          /\ last'.branch # "" =>
                 /\ ring' # <<>>
                 /\ ring'[Len(ring')].root = root
          /\ last'.branch = "" => ring' = ring]_vars

C13_Witness ==
    /\ last.op = "add_block_hash_to_timestamp"
    /\ last.err = "TypeError"
    /\ Len(ring) >= 2
    /\ ring[Len(ring)].root = root
    /\ ring[1].root # root
    /\ root # BLANK_HASH

\* C14: add_block_hash_to_timestamp with an aligned ts below the ring's first window
\* clamps the start to the first entry: the call completes without addressing an entry
\* through a negative or fractional index, and the entries from the first one through
\* the one at last_finished hold the new head
C14_EarlyTimestampClampedToFirstEntry ==
    [][last'.op = "add_block_hash_to_timestamp" =>
          \A a \in Addresses, h \in Hashes, ts \in 0..MaxNow :
              ( /\ AddBlockHashToTimestamp(a, h, ts)
                /\ ts <= now /\ ts % W = 0
                /\ ts < ring'[1].window ) =>
                  /\ \A i \in DOMAIN ring' :
                         ring'[i].window <= (now \div W) * W =>
                             TrieGet(ring'[i].root, a) = h
                  /\ last'.err = "none"]_vars

\* C16: add_block_hash_to_timestamp with ts > now or ts % W # 0 fails with
\* InvalidHeadRootTimestamp before any mutation: the ring, the current-root key, every
\* chronological window, every snapshot and the handle are as before the call
C16_InvalidTimestampMutatesNothing ==
    [][last'.op = "add_block_hash_to_timestamp" =>
          \A ts \in 0..(now + 1) :
              ( /\ ts > now \/ ts % W # 0
                /\ \E a \in Addresses, h \in Hashes : AddBlockHashToTimestamp(a, h, ts) ) =>
                      /\ last'.err = "InvalidHeadRootTimestamp"
                      /\ UNCHANGED <<ring, curKey, chrono, nodes, root, pending>>]_vars

\* a rejected call on a ring that a promote would have changed
C16_Witness ==
    /\ last.op = "add_block_hash_to_timestamp"
    /\ last.branch = ""
    /\ last.err = "InvalidHeadRootTimestamp"
    /\ ring # <<>>
    /\ ring[Len(ring)].window <= (now \div W) * W
    /\ ring[Len(ring)].root # root

\* C15: get_chain_head_hash_at_timestamp(address, ts) fails with
\* InvalidHeadRootTimestamp whenever ts > now or ts % W # 0, whatever the ring holds,
\* and writes nothing to the KV store
C15_ReadRejectsInvalidTimestamp ==
    [][last'.op = "get_chain_head_hash_at_timestamp" =>
          \A ts \in 0..(now + 1) :
              ( /\ ts > now \/ ts % W # 0
                /\ \E a \in Addresses : GetChainHeadHashAtTimestamp(a, ts) ) =>
                  /\ last'.err = "InvalidHeadRootTimestamp"
                  /\ \A a \in Addresses :
                         GetChainHeadHashAtTimestampResult(a, ts) = "InvalidHeadRootTimestamp"
                  /\ UNCHANGED <<ring, curKey, nodes, chrono>>]_vars

C15_Witness ==
    /\ last.op = "get_chain_head_hash_at_timestamp"
    /\ last.branch = "invalid"
    /\ last.err = "InvalidHeadRootTimestamp"
    /\ Len(ring) >= 2
    /\ now % W # 0

\* C17: for a valid ts (aligned, not in the future) get_chain_head_hash_at_timestamp
\* returns None when no ring is persisted or when ts is below the first ring entry's
\* window
C17_ReadAbsentBeforeRing ==
    \A a \in Addresses, ts \in 0..now :
        (ts % W = 0 /\ (ring = <<>> \/ ts < ring[1].window)) =>
            GetChainHeadHashAtTimestampResult(a, ts) = "None"

\* a read below the first window of a ring whose latest snapshot holds a head
C17_Witness ==
    /\ last.op = "get_chain_head_hash_at_timestamp"
    /\ last.branch = "before_first"
    /\ last.err = "none"
    /\ \E a \in Addresses : FreshGet(ring[Len(ring)].root, a) \in Hashes

\* C18: for a valid ts at or after the first ring window,
\* get_chain_head_hash_at_timestamp(a, ts) returns the head of a in the snapshot whose
\* root the ring entry with window ts holds when there is such an entry, and otherwise
\* the head of a in the snapshot of the last ring entry
C18_ReadReturnsEntrySnapshot ==
    \A a \in Addresses, ts \in 0..now :
        (ts % W = 0 /\ ring # <<>> /\ ts >= ring[1].window) =>
            GetChainHeadHashAtTimestampResult(a, ts) =
                IF \E i \in DOMAIN ring : ring[i].window = ts
                THEN TrieGet(ring[CHOOSE i \in DOMAIN ring : ring[i].window = ts].root, a)
                ELSE TrieGet(ring[Len(ring)].root, a)

\* C19: round trip through the current-root key.  persist(save_current_root_hash=True)
\* on a handle whose snapshot is readable (a set_chain_head_hash went through) writes
\* the handle's root under the key and leaves it flushed; load_from_saved_root_hash
\* right after it returns a handle with the same root_hash whose get_chain_head_hash
\* agrees with the original handle for every address; and a load on a store whose key
\* was never written returns a handle on the empty snapshot, every address absent
C19_SavedRootRoundTrip ==
    /\ [][(Persist(TRUE) /\ Readable(root)) =>
             /\ curKey' = <<root>>
             /\ root' = root
             /\ root' = BLANK_HASH \/ root' \in nodes']_vars
    /\ [][(last.op = "persist" /\ last.branch # "" /\ LoadFromSavedRootHash) =>
             /\ root' = root
             /\ \A a \in Addresses : GetChainHeadHash(a)' = GetChainHeadHash(a)]_vars
    /\ [][(curKey = <<>> /\ LoadFromSavedRootHash) =>
             \A a \in Addresses : GetChainHeadHash(a)' = NoHash]_vars

\* a handle loaded from the key that a persist wrote, with a head in its snapshot
C19_Witness ==
    /\ last.op = "load_from_saved_root_hash"
    /\ curKey = <<root>>
    /\ root \in nodes
    /\ \E a \in Addresses : GetChainHeadHash(a) \in Hashes

\* C20: committed snapshots are immutable: for every root r that a persist flushed, a
\* fresh handle opened at r returns for every address the value the snapshot that
\* produced r holds for it, before and after every later operation on any handle
C20_CommittedSnapshotsImmutable ==
    [][\A r \in nodes, a \in Addresses :
           /\ FreshGet(r, a) = r[a]
           /\ FreshGet(r, a)' = r[a]]_vars

\* an older committed snapshot next to the handle's own after a late-block call
C20_Witness ==
    /\ last.op = "add_block_hash_to_timestamp"
    /\ last.branch # ""
    /\ Cardinality(nodes) >= 2
    /\ root \in nodes
    /\ \E r \in nodes : r # root /\ \A i \in DOMAIN ring : ring[i].root # r

\* C21: for any handle, address a and hash h, the root after set_chain_head_hash(a, h)
\* followed by persist differs from the root before the set if and only if
\* get_chain_head_hash(a) returned a value different from h before the set: the set
\* moves the root exactly in that case, and the persist keeps the root
C21_RootChangesIffHeadChanges ==
    /\ [][\A a \in Addresses, h \in Hashes :
             (SetChainHeadHash(a, h) /\ last'.err = "none") =>
                 ((root' # root) <=> (GetChainHeadHash(a) # h))]_vars
    /\ [][\A save \in BOOLEAN : Persist(save) => root' = root]_vars

\* a set of the head the snapshot already holds, on a handle whose only flushed root
\* is its own: the root did not move
C21_Witness ==
    /\ last.op = "set_chain_head_hash"
    /\ last.err = "none"
    /\ nodes = {root}
    /\ pending = {root}

\* C22: add_block_hash_to_chronological_window(hash, ts) with ts <= now - N*W is a
\* no-op: no chronological window is created or changed and nothing else in the KV
\* store changes; with ts > now - N*W the pair is stored in the window floor(ts/W)*W,
\* which grows by that one pair, and the other windows stay as they are
C22_ChronoRetentionAndWindow ==
    [][last'.op = "add_block_hash_to_chronological_window" =>
          \A h \in Hashes, ts \in ChronoInputs :
              AddBlockHashToChronologicalWindow(h, ts) =>
                  /\ UNCHANGED <<ring, curKey, nodes>>
                  /\ ts <= now - N * W => chrono' = chrono
                  /\ ts > now - N * W =>
                         /\ (ts \div W) * W \in DOMAIN chrono'
                         /\ \E i \in 1..Len(chrono'[(ts \div W) * W]) :
                                chrono'[(ts \div W) * W][i] = <<ts, h>>
                         /\ Len(chrono'[(ts \div W) * W]) =
                                IF (ts \div W) * W \in DOMAIN chrono
                                THEN Len(chrono[(ts \div W) * W]) + 1 ELSE 1
                         /\ \A x \in DOMAIN chrono' \ {(ts \div W) * W} :
                                x \in DOMAIN chrono /\ chrono'[x] = chrono[x]]_vars

\* a call ignored at the retention limit next to stored windows
C22_Witness ==
    /\ last.op = "add_block_hash_to_chronological_window"
    /\ last.branch = "ignored"
    /\ now >= N * W
    /\ chrono # <<>>

\* C23: several pairs with the same timestamp inserted into one chronological window
\* appear in the stored list in the order of their insertion: a new pair is placed
\* after the last existing entry with entry.ts <= ts, or at the front if there is none
C23_ChronoTiesInInsertionOrder ==
    [][last'.op = "add_block_hash_to_chronological_window" =>
          \A h \in Hashes, ts \in ChronoInputs :
              ( /\ AddBlockHashToChronologicalWindow(h, ts)
                /\ ts > now - N * W
                /\ (ts \div W) * W \in DOMAIN chrono ) =>
                  \E k \in 0..Len(chrono[(ts \div W) * W]) :
                      /\ chrono'[(ts \div W) * W] =
                             SubSeq(chrono[(ts \div W) * W], 1, k) \o <<<<ts, h>>>> \o
                             SubSeq(chrono[(ts \div W) * W], k + 1,
                                    Len(chrono[(ts \div W) * W]))
                      /\ k > 0 => chrono[(ts \div W) * W][k][1] <= ts
                      /\ \A j \in (k + 1)..Len(chrono[(ts \div W) * W]) :
                             chrono[(ts \div W) * W][j][1] > ts]_vars

\* two pairs of one timestamp and different hashes side by side in a window
C23_Witness ==
    /\ last.op = "add_block_hash_to_chronological_window"
    /\ last.branch = "inserted"
    /\ \E w \in DOMAIN chrono :
           \E i \in 1..(Len(chrono[w]) - 1) :
               /\ chrono[w][i][1] = chrono[w][i + 1][1]
               /\ chrono[w][i][2] # chrono[w][i + 1][2]

\* C24: when a promote moves the ring's oldest window forward, it deletes the
\* chronological window of every W-aligned w strictly between the old oldest window
\* and the new oldest window, and it deletes no chronological window at or after the
\* new oldest ring window
C24_PromotePrunesBetweenOldest ==
    [][( /\ last'.op = "append_current_root_hash_to_historical"
         /\ ring # <<>>
         /\ ring'[1].window > ring[1].window ) =>
          \A w \in DOMAIN chrono :
              /\ (w % W = 0 /\ ring[1].window < w /\ w < ring'[1].window) =>
                     w \notin DOMAIN chrono'
              /\ w >= ring'[1].window =>
                     w \in DOMAIN chrono' /\ chrono'[w] = chrono[w]]_vars

\* C25: a clock going backwards is tolerated: a promote called at a time whose current
\* window floor(now/W)*W + W is earlier than the ring's last window is a no-op on the
\* persisted ring, no window and no root of any entry changes
C25_BackwardClockPromoteIsNoOp ==
    [][( /\ AppendCurrentRootHashToHistorical
         /\ ring # <<>>
         /\ (now \div W) * W + W < ring[Len(ring)].window ) =>
          ring' = ring]_vars

\* C26: whenever the clock advanced by at least N*W seconds between two consecutive
\* promotes, the second promote takes the ring-reset branch (N synthesized entries and
\* the current entry) and not the append-and-trim branch.  The earlier promote ran at
\* a clock reading t1 whose current window is the ring's last window; the advance is at
\* least N*W for every such t1
C26_LongGapTakesReset ==
    [][( /\ last'.op \in PromoteOps
         /\ last'.branch # ""
         /\ ring # <<>>
         /\ \E t1 \in 0..now : (t1 \div W) * W + W = ring[Len(ring)].window
         /\ \A t1 \in 0..now :
                (t1 \div W) * W + W = ring[Len(ring)].window => now - t1 >= N * W ) =>
          /\ last'.branch = "reset"
          /\ Len(ring') = N + 1]_vars

\* C27: promote is idempotent: a call of append_current_root_hash_to_historical right
\* after another one, at the same clock value and with the same handle root, leaves the
\* persisted ring and the chronological windows as the first call left them, whichever
\* branch the first call took
C27_PromoteIdempotent ==
    [][( /\ last.op = "append_current_root_hash_to_historical"
         /\ AppendCurrentRootHashToHistorical ) =>
          /\ ring' = ring
          /\ chrono' = chrono
          /\ last'.branch = "inprogress"]_vars

\* a second call after a reset, with chronological windows stored
C27_Witness ==
    /\ last.op = "append_current_root_hash_to_historical"
    /\ last.branch = "inprogress"
    /\ Len(ring) = N + 1
    /\ chrono # <<>>

\* C29: set_chain_head_hash changes only the handle's buffer: the KV store (flushed
\* nodes, current-root key, ring, chronological windows) is as before, so a second
\* handle opened on the store at any root, the handle's previous root among them, or
\* through the current-root key reads what it read before the set; and after persist
\* returns, a handle opened at the handle's root reads the heads the handle holds
C29_WritesVisibleAfterPersist ==
    /\ [][\A a \in Addresses, h \in Hashes :
             SetChainHeadHash(a, h) =>
                 /\ UNCHANGED <<nodes, curKey, ring, chrono>>
                 /\ \A r \in Snapshots, b \in Addresses :
                        FreshGet(r, b)' = FreshGet(r, b)]_vars
    /\ [][\A save \in BOOLEAN :
             (Persist(save) /\ Readable(root)) =>
                 \A r \in Snapshots, b \in Addresses :
                     r = root => FreshGet(r, b)' = GetChainHeadHash(b)]_vars

\* a head set on the handle that a handle on the store cannot read yet
C29_Witness ==
    /\ last.op = "set_chain_head_hash"
    /\ last.err = "none"
    /\ root \in pending
    /\ root \notin nodes
    /\ nodes # {}
    /\ \E a \in Addresses :
           /\ GetChainHeadHash(a) \in Hashes
           /\ FreshGet(root, a) = "MissingTrieNode"

\* C30: read-your-writes within one handle: after any sequence of set_chain_head_hash
\* calls, with or without a persist in between, get_chain_head_hash(a) on the handle
\* returns the value of the most recent set for a, or the value at the opened root
\* if a was never set: a successful set is read back and leaves the other addresses,
\* and no operation other than a set or the opening of a new handle changes a read
C30_ReadYourWrites ==
    /\ [][\A a \in Addresses, h \in Hashes :
             (SetChainHeadHash(a, h) /\ last'.err = "none") =>
                 /\ GetChainHeadHash(a)' = h
                 /\ \A b \in Addresses \ {a} :
                        GetChainHeadHash(b)' = GetChainHeadHash(b)]_vars
    /\ [][last'.op \notin {"set_chain_head_hash", "load_from_saved_root_hash"} =>
             \A a \in Addresses : GetChainHeadHash(a)' = GetChainHeadHash(a)]_vars
    /\ [][LoadFromSavedRootHash =>
             \A r \in Snapshots, a \in Addresses :
                 r = root' => GetChainHeadHash(a)' = FreshGet(r, a)]_vars

\* a head read back from the write buffer after a persist and a later set
C30_Witness ==
    /\ last.op = "set_chain_head_hash"
    /\ last.err = "none"
    /\ nodes # {}
    /\ root \notin nodes
    /\ \E a \in Addresses : GetChainHeadHash(a) \in Hashes

\* C31: a crash before persist completes loses only the buffered writes: the root
\* stored under the current-root key before the crash is still loadable by
\* load_from_saved_root_hash, and the handle it returns reads the heads of that root's
\* snapshot
C31_CrashKeepsSavedRoot ==
    [][(LoadFromSavedRootHash /\ curKey # <<>>) =>
          \A a \in Addresses : GetChainHeadHash(a)' = TrieGet(curKey[1], a)]_vars

\* C32: get_latest_timestamp returns 0 when no ring is persisted and otherwise the
\* window of the last ring entry, and it never changes the KV store
C32_LatestTimestamp ==
    [][GetLatestTimestamp =>
          /\ ring = <<>> => last'.n = 0
          /\ ring # <<>> => last'.n = ring[Len(ring)].window
          /\ last'.err = "none"
          /\ UNCHANGED <<ring, curKey, nodes, chrono>>]_vars

\* a read on a ring of several entries, under a clock set back below the last window
C32_Witness ==
    /\ last.op = "get_latest_timestamp"
    /\ Len(ring) >= 2
    /\ last.n = ring[Len(ring)].window
    /\ last.n > now + W

\* C33: load_, delete_ and save_chronological_block_window fail with
\* InvalidHeadRootTimestamp when the timestamp is not a multiple of W and leave the KV
\* store unchanged; for an aligned timestamp load returns None when the window is
\* missing and delete of a missing window succeeds
C33_WindowAccessorsCheckAlignment ==
    [][\A w \in 0..(MaxNow + 1) :
          /\ (w % W # 0 /\ (\/ LoadChronologicalBlockWindow(w)
                            \/ DeleteChronologicalBlockWindow(w)
                            \/ \E data \in WindowData(w) :
                                   SaveChronologicalBlockWindow(data, w)))
                => /\ last'.err = "InvalidHeadRootTimestamp"
                   /\ UNCHANGED <<ring, curKey, nodes, chrono>>
          /\ (w % W = 0 /\ w \notin DOMAIN chrono /\ LoadChronologicalBlockWindow(w))
                => /\ last'.err = "none"
                   /\ last'.branch = "None"
                   /\ UNCHANGED <<ring, curKey, nodes, chrono>>
          /\ (w % W = 0 /\ w \notin DOMAIN chrono /\ DeleteChronologicalBlockWindow(w))
                => /\ last'.err = "none"
                   /\ UNCHANGED <<ring, curKey, nodes, chrono>>]_vars

\* a save refused for its timestamp while windows are stored
C33_Witness ==
    /\ last.op = "save_chronological_block_window"
    /\ last.err = "InvalidHeadRootTimestamp"
    /\ chrono # <<>>

\* C34: persist(save_current_root_hash=True) flushes the buffered trie nodes, then
\* writes the current-root key, then writes the ring; after it returns the key and the
\* last ring entry's root both equal the handle's root_hash; persist(False) writes
\* neither the key nor the ring nor any chronological window
C34_PersistWriteOrder ==
    [][/\ PersistSetKey =>
             /\ pending = {} /\ RootExists(root)
             /\ UNCHANGED <<ring, nodes, chrono>>
       /\ PersistAppend =>
             /\ pending = {} /\ RootExists(root)
             /\ curKey = <<root>>
             /\ UNCHANGED <<curKey, nodes>>
             /\ last'.err = "none" =>
                   /\ curKey' = <<root'>>
                   /\ ring' # <<>> /\ ring'[Len(ring')].root = root'
       /\ PersistCommit(FALSE) =>
             /\ ~MidPersist'
             /\ UNCHANGED <<curKey, ring, chrono>>]_vars

\* persist(True) has returned with a root that differs from the root of the entry
\* before the last, on a store that holds a chronological window
C34_Witness ==
    /\ last.op = "persist" /\ ~MidPersist /\ last.branch # "" /\ last.err = "none"
    /\ Len(ring) >= 2
    /\ ring[Len(ring)].root = root
    /\ ring[Len(ring) - 1].root # root
    /\ curKey = <<root>>
    /\ chrono # <<>>

\* C35: add_block_hash_to_timestamp called with a W-aligned ts <= now completes without
\* raising, for every reachable ring and every relation between ts and the ring's first
\* window.  A call that passed the timestamp checks is recorded with the branch its
\* promote took.
C35_LateBlockNeverRaises ==
    (last.op = "add_block_hash_to_timestamp" /\ last.branch # "") => last.err = "none"

\* C36: append_current_root_hash_to_historical never raises in any reachable state: the
\* deletion loop calls delete_chronological_block_window with W-aligned timestamps only
C36_PromoteNeverRaises ==
    [][AppendCurrentRootHashToHistorical =>
          /\ \A w \in PromoteDeletes(ring, now, root) : w % W = 0
          /\ last'.err = "none"]_vars

\* C37: outside the reset branch a promote never changes the root of a ring entry that
\* is not the last one: an entry whose window is in the ring before and after the call
\* keeps its root (in the rollover branch this holds of the old last entry as well)
C37_PromoteKeepsFinalizedRoots ==
    [][(AppendCurrentRootHashToHistorical /\ PromoteBranch(ring, now) # "reset") =>
          \A i \in DOMAIN ring, j \in DOMAIN ring' :
              ( /\ ring[i].window = ring'[j].window
                /\ (i < Len(ring) \/ PromoteBranch(ring, now) = "rollover") ) =>
                  ring'[j].root = ring[i].root]_vars

\* a promote in the in-progress branch has left an older entry with another root than
\* the one it wrote
C37_Witness ==
    /\ last.op = "append_current_root_hash_to_historical"
    /\ last.branch = "inprogress"
    /\ Len(ring) >= 2
    /\ ring[Len(ring)].root = root
    /\ ring[1].root # root

\* C38: every accepted add_block_hash_to_chronological_window call (ts > now - N*W)
\* makes the window floor(ts/W)*W longer by exactly one pair, keeps the pairs stored
\* before in their order (a repeated (ts, hash) pair is stored again), and leaves the
\* ring, the current-root key, the handle's root and every other window unchanged
C38_ChronoInsertFrame ==
    [][\A h \in Hashes, ts \in ChronoInputs :
          (AddBlockHashToChronologicalWindow(h, ts) /\ ts > now - N * W) =>
              LET w == (ts \div W) * W
                  old == IF w \in DOMAIN chrono THEN chrono[w] ELSE <<>>
              IN  /\ w \in DOMAIN chrono'
                  /\ Len(chrono'[w]) = Len(old) + 1
                  /\ \E k \in 1..(Len(old) + 1) :
                        /\ chrono'[w][k] = <<ts, h>>
                        /\ \A i \in 1..Len(old) :
                               chrono'[w][IF i < k THEN i ELSE i + 1] = old[i]
                  /\ DOMAIN chrono' = DOMAIN chrono \cup {w}
                  /\ \A x \in DOMAIN chrono \ {w} : chrono'[x] = chrono[x]
                  /\ UNCHANGED <<ring, curKey, root, nodes, pending>>]_vars

\* an insert between two stored pairs has left a window that holds the same
\* (ts, hash) pair twice
C38_Witness ==
    /\ last.op = "add_block_hash_to_chronological_window"
    /\ last.branch = "inserted"
    /\ \E w \in DOMAIN chrono :
           /\ Len(chrono[w]) = 3
           /\ last.n = 1
           /\ chrono[w][1] = chrono[w][2]
           /\ chrono[w][3] # chrono[w][2]

====
